---- MODULE Spec2Model ----
(***************************************************************************)
(* Model of the thinkbase backend: the startup schema reconciliation       *)
(* (database.py: get_db, init_db) and the request handlers of the entity   *)
(* access layer (main.py), over a relational store whose tables are        *)
(* functions from primary key to row and whose rows are functions from     *)
(* column name to value.                                                   *)
(***************************************************************************)
EXTENDS Integers, Sequences, FiniteSets, TLC

VARIABLES schema,    \* existing tables: table name -> set of column names
          tasks,     \* rows of table tasks: id -> row (column -> value)
          ideas,     \* rows of table ideas: id -> row
          settings,  \* rows of table settings: key -> row
          ipc,       \* position of init_db
          attempt,   \* init_db: loop variable `attempt`
          stmt,      \* init_db: index of the next statement of the body
          ierr,      \* init_db: exception in flight ("none" when there is none)
          iconns,    \* connections opened by init_db and not yet closed
          slept,     \* seconds init_db has spent in time.sleep in this run
          runs,      \* number of init_db runs started (process starts)
          start,     \* the schema this run of init_db started on, and how
                     \* the run before it ended ("none": there was none)
          now,       \* the clock of the store, read by NOW()
          req,       \* per client: the request being handled and its response
          anthropic_client,  \* main.py: TRUE for a client object, FALSE for None
          provider_calls,    \* per client: calls of messages.create made by
                             \* the request being handled
          stats      \* per client: the local variables of get_statistics

vars == <<schema, tasks, ideas, settings, ipc, attempt, stmt, ierr, iconns,
          slept, runs, start, now, req, anthropic_client, provider_calls,
          stats>>

apivars == <<anthropic_client, provider_calls, stats>>

initvars == <<ipc, attempt, stmt, ierr, iconns, slept, runs, start>>

dbvars == <<schema, tasks, ideas, settings>>

(***************************************************************************)
(* Bounds                                                                  *)
(***************************************************************************)
MaxRuns == 2
MaxTime == 3
MaxMissing == 2

(***************************************************************************)
(* Values.  A nullable column holds None (SQL NULL) or Some(v).            *)
(***************************************************************************)
None == {}
Some(v) == {v}

Clients == {"c1", "c2"}

\* a client with no request in flight and no response yet
IdleReq ==
    [pc |-> "idle", method |-> "", path |-> <<>>, op |-> "", id |-> 0,
     conns |-> 0, status |-> 0, err |-> "none", row |-> None, count |-> None,
     input |-> None]

\* get_statistics before its first statement: no local is assigned yet
\* (step counts the statements executed; a local is read only after the
\* statement that assigns it)
NoStats ==
    [step |-> 0, total_tasks |-> 0, completed_tasks |-> 0, total_ideas |-> 0,
     ideas_with_recommendations |-> 0, ideas_with_features |-> 0,
     ideas_by_domain |-> {}]

max_retries == 5
retry_delay == 3

(***************************************************************************)
(* Schema                                                                  *)
(***************************************************************************)
Tables == {"tasks", "ideas", "settings"}

TasksCols == {"id", "text", "completed", "task_owner", "due_date", "created_at"}

IdeasCols == {"id", "text", "domain", "recommendations", "ai_feedback",
              "feature_list", "chat_history", "created_by", "created_at",
              "updated_at", "feature_list_generated_at"}

SettingsCols == {"key", "value", "updated_at", "updated_by"}

TargetCols(t) ==
    CASE t = "tasks" -> TasksCols
      [] t = "ideas" -> IdeasCols
      [] t = "settings" -> SettingsCols

\* the column sets of the first deployment (no settings table then)
OriginalTasksCols == {"id", "text", "completed", "created_at"}

OriginalIdeasCols == {"id", "text", "domain", "created_at", "updated_at",
                      "recommendations", "feature_list",
                      "feature_list_generated_at"}

OriginalCols(t) ==
    CASE t = "tasks" -> OriginalTasksCols
      [] t = "ideas" -> OriginalIdeasCols
      [] t = "settings" -> SettingsCols

\* primary key and NOT NULL columns: every definition of a table has them
KeyCols(t) ==
    CASE t = "tasks" -> {"id", "text"}
      [] t = "ideas" -> {"id", "text"}
      [] t = "settings" -> {"key", "value"}

ColumnDefaultNull(c) == None

\* the value a column takes in the rows that exist when it is added
ColumnDefault(c) == IF c = "chat_history" THEN Some(<<>>) ELSE None

Rows(t) ==
    CASE t = "tasks" -> tasks
      [] t = "ideas" -> ideas
      [] t = "settings" -> settings

\* CREATE TABLE IF NOT EXISTS t (target columns): a no-op on an existing table
CreateTableIfNotExists(sch, t) ==
    IF t \in DOMAIN sch
    THEN [err |-> "none", schema |-> sch]
    ELSE [err |-> "none",
          schema |-> [x \in DOMAIN sch \cup {t} |->
                        IF x = t THEN TargetCols(t) ELSE sch[x]]]

\* ALTER TABLE t ADD COLUMN c
AlterAddColumn(sch, t, c) ==
    IF t \notin DOMAIN sch
    THEN [err |-> "undefined_table", schema |-> sch]
    ELSE IF c \in sch[t]
    THEN [err |-> "duplicate_column", schema |-> sch]
    ELSE [err |-> "none", schema |-> [sch EXCEPT ![t] = @ \cup {c}]]

DoAddColumnUnguarded(sch, t, c) == AlterAddColumn(sch, t, c)

\* DO $$ BEGIN BEGIN ALTER ... EXCEPTION WHEN duplicate_column THEN NULL; END; END $$
DoAddColumn(sch, t, c) ==
    LET r == AlterAddColumn(sch, t, c)
    IN  IF r.err = "duplicate_column" THEN [r EXCEPT !.err = "none"] ELSE r

\* the rows of a table after column c was added to it
AddColumnToRows(rows, c) ==
    [k \in DOMAIN rows |->
        [x \in DOMAIN rows[k] \cup {c} |->
            IF x \in DOMAIN rows[k] THEN rows[k][x] ELSE ColumnDefault(c)]]

InitStatementsWithoutDueDate ==
    << [kind |-> "create", table |-> "tasks", column |-> ""],
       [kind |-> "create", table |-> "ideas", column |-> ""],
       [kind |-> "create", table |-> "settings", column |-> ""],
       [kind |-> "add", table |-> "ideas", column |-> "chat_history"],
       [kind |-> "add", table |-> "ideas", column |-> "ai_feedback"],
       [kind |-> "add", table |-> "ideas", column |-> "created_by"],
       [kind |-> "add", table |-> "tasks", column |-> "task_owner"] >>

\* the statements of the body of init_db, in program order
InitStatements ==
    << [kind |-> "create", table |-> "tasks", column |-> ""],
       [kind |-> "create", table |-> "ideas", column |-> ""],
       [kind |-> "create", table |-> "settings", column |-> ""],
       [kind |-> "add", table |-> "ideas", column |-> "chat_history"],
       [kind |-> "add", table |-> "ideas", column |-> "ai_feedback"],
       [kind |-> "add", table |-> "ideas", column |-> "created_by"],
       [kind |-> "add", table |-> "tasks", column |-> "task_owner"],
       [kind |-> "add", table |-> "tasks", column |-> "due_date"] >>

\* cursor.execute of one statement of init_db against schema sch
ExecStatement(sch, s) ==
    IF s.kind = "create"
    THEN CreateTableIfNotExists(sch, s.table)
    ELSE DoAddColumn(sch, s.table, s.column)

\* the rows of table t after statement s took schema sch to schema sch2
RowsAfter(t, sch, sch2, s) ==
    IF t \notin DOMAIN sch THEN Rows(t)
    ELSE IF s.table = t /\ sch2[t] # sch[t]
         THEN AddColumnToRows(Rows(t), s.column)
         ELSE Rows(t)

IsAnyError(e) == e # "none"

\* except psycopg2.OperationalError
IsOperationalError(e) == e = "operational"

ShouldRetryOffByOne(a) == a < max_retries

\* if attempt < max_retries - 1
ShouldRetry(a) == a < max_retries - 1

(***************************************************************************)
(* Starting stores                                                         *)
(***************************************************************************)
SampleRow(t) ==
    CASE t = "tasks" ->
            [id |-> 1, text |-> "a", completed |-> FALSE, task_owner |-> None,
             due_date |-> None, created_at |-> 0]
      [] t = "ideas" ->
            [id |-> 1, text |-> "a", domain |-> Some("x"),
             recommendations |-> None, ai_feedback |-> None,
             feature_list |-> None, chat_history |-> Some(<<>>),
             created_by |-> None, created_at |-> 0, updated_at |-> None,
             feature_list_generated_at |-> None]
      [] t = "settings" ->
            [key |-> "k", value |-> "v", updated_at |-> 0, updated_by |-> None]

\* one stored row of table t under schema sch (no row when t does not exist)
StartRows(sch, t, k) ==
    IF t \in DOMAIN sch
    THEN [x \in {k} |-> [c \in sch[t] |-> SampleRow(t)[c]]]
    ELSE <<>>

\* column sets a table may have been left with: the one of its first
\* definition, or the target columns less any MaxMissing of them, the key
\* columns excepted
StartCols(t) ==
    {OriginalCols(t)} \cup
    {TargetCols(t) \ ms : ms \in {x \in SUBSET (TargetCols(t) \ KeyCols(t)) :
                                     Cardinality(x) <= MaxMissing}}

\* a table's starting column set; {} stands for "the table does not exist"
IsHistoric(cs, t) == cs \in {{}, OriginalCols(t), TargetCols(t)}

MakeSchema(tc, ic, sc) ==
    LET cols == [t \in Tables |->
                   CASE t = "tasks" -> tc [] t = "ideas" -> ic [] t = "settings" -> sc]
    IN  [t \in {x \in Tables : cols[x] # {}} |-> cols[t]]

\* starting schemas: every table absent, as first deployed or as targeted,
\* except at most one table, which has any of its StartCols
StartSchemas ==
    { MakeSchema(x[1], x[2], x[3]) :
        x \in { y \in (StartCols("tasks") \cup {{}})
                      \X (StartCols("ideas") \cup {{}})
                      \X (StartCols("settings") \cup {{}}) :
                 \/ IsHistoric(y[1], "tasks") /\ IsHistoric(y[2], "ideas")
                 \/ IsHistoric(y[1], "tasks") /\ IsHistoric(y[3], "settings")
                 \/ IsHistoric(y[2], "ideas") /\ IsHistoric(y[3], "settings") } }

InitDbIdle ==
    /\ ipc = "connect"
    /\ attempt = 0
    /\ stmt = 1
    /\ ierr = "none"
    /\ iconns = 0
    /\ slept = 0
    /\ runs = 1

InitStore(sch) ==
    /\ schema = sch
    /\ tasks = StartRows(sch, "tasks", 1)
    /\ ideas = StartRows(sch, "ideas", 1)
    /\ settings = StartRows(sch, "settings", "k")
    /\ start = [schema |-> sch, prior |-> "none"]

InitApi ==
    /\ now = 0
    /\ req = [c \in Clients |-> IdleReq]
    /\ provider_calls = [c \in Clients |-> 0]
    /\ stats = [c \in Clients |-> NoStats]

\* ANTHROPIC_API_KEY is not set: anthropic_client is None
InitNoKey == anthropic_client = FALSE

InitSchemas ==
    /\ \E sch \in StartSchemas : InitStore(sch)
    /\ InitDbIdle
    /\ InitApi
    /\ InitNoKey

(***************************************************************************)
(* init_db                                                                 *)
(***************************************************************************)
Faults == {"none", "operational", "other"}

\* with get_db() as conn: psycopg2.connect(...)
InitDbConnect ==
    /\ ipc = "connect"
    /\ \E f \in Faults :
          IF f = "none"
          THEN /\ iconns' = iconns + 1
               /\ stmt' = 1
               /\ ierr' = "none"
               /\ ipc' = "body"
          ELSE /\ ierr' = f
               /\ ipc' = "except"
               /\ UNCHANGED <<iconns, stmt>>
    /\ UNCHANGED <<dbvars, attempt, slept, runs, start, now, req, apivars>>

\* cursor.execute(statement stmt); the last one is followed by return
InitDbExecute ==
    /\ ipc = "body"
    /\ \E f \in Faults :
          IF f # "none"
          THEN /\ ierr' = f
               /\ ipc' = "exit"
               /\ UNCHANGED <<dbvars, stmt>>
          ELSE \E s \in {InitStatements[stmt]} :
               \E r \in {ExecStatement(schema, s)} :
                   /\ schema' = r.schema
                   /\ tasks' = RowsAfter("tasks", schema, r.schema, s)
                   /\ ideas' = RowsAfter("ideas", schema, r.schema, s)
                   /\ settings' = RowsAfter("settings", schema, r.schema, s)
                   /\ ierr' = r.err
                   /\ IF r.err # "none" \/ stmt = Len(InitStatements)
                      THEN ipc' = "exit" /\ stmt' = stmt
                      ELSE ipc' = "body" /\ stmt' = stmt + 1
    /\ UNCHANGED <<attempt, iconns, slept, runs, start, now, req, apivars>>

\* get_db: finally: conn.close()
InitDbClose ==
    /\ ipc = "exit"
    /\ iconns' = iconns - 1
    /\ ipc' = IF ierr = "none" THEN "returned" ELSE "except"
    /\ UNCHANGED <<dbvars, attempt, stmt, ierr, slept, runs, start, now, req, apivars>>

\* the two except clauses of init_db
InitDbExcept ==
    /\ ipc = "except"
    /\ ipc' = IF IsOperationalError(ierr) /\ ShouldRetry(attempt)
              THEN "sleep" ELSE "raised"
    /\ UNCHANGED <<dbvars, attempt, stmt, ierr, iconns, slept, runs, start, now, req, apivars>>

\* time.sleep(retry_delay), then the next iteration of the for loop
InitDbSleep ==
    /\ ipc = "sleep"
    /\ slept' = slept + retry_delay
    /\ attempt' = attempt + 1
    /\ ipc' = IF attempt + 1 < max_retries THEN "connect" ELSE "returned"
    /\ ierr' = "none"
    /\ UNCHANGED <<dbvars, stmt, iconns, runs, start, now, req, apivars>>

\* the process is started again (redeploy): startup_event calls init_db
Redeploy ==
    /\ ipc \in {"returned", "raised"}
    /\ runs < MaxRuns
    /\ runs' = runs + 1
    /\ attempt' = 0
    /\ stmt' = 1
    /\ ierr' = "none"
    /\ slept' = 0
    /\ ipc' = "connect"
    /\ start' = [schema |-> schema, prior |-> ipc]
    /\ UNCHANGED <<dbvars, iconns, now, req, apivars>>


(***************************************************************************)
(* Routing: the routes of main.py in registration order.  A request is     *)
(* dispatched to the first route whose method and path pattern match; a    *)
(* path parameter "{}" matches any one segment and is converted to int     *)
(* afterwards, a failed conversion answers 422.                            *)
(***************************************************************************)
Routes ==
    << [method |-> "GET",    pattern |-> <<>>,                               op |-> "read_root"],
       [method |-> "GET",    pattern |-> <<"health">>,                       op |-> "health_check"],
       [method |-> "GET",    pattern |-> <<"api", "tasks">>,                 op |-> "get_tasks"],
       [method |-> "GET",    pattern |-> <<"api", "tasks", "{}">>,           op |-> "get_task"],
       [method |-> "POST",   pattern |-> <<"api", "tasks">>,                 op |-> "create_task"],
       [method |-> "PUT",    pattern |-> <<"api", "tasks", "{}">>,           op |-> "update_task"],
       [method |-> "DELETE", pattern |-> <<"api", "tasks", "{}">>,           op |-> "delete_task"],
       [method |-> "DELETE", pattern |-> <<"api", "tasks", "completed", "all">>, op |-> "delete_completed_tasks"],
       [method |-> "GET",    pattern |-> <<"api", "ideas">>,                 op |-> "get_ideas"],
       [method |-> "GET",    pattern |-> <<"api", "ideas", "{}">>,           op |-> "get_idea"],
       [method |-> "POST",   pattern |-> <<"api", "ideas">>,                 op |-> "create_idea"],
       [method |-> "PUT",    pattern |-> <<"api", "ideas", "{}">>,           op |-> "update_idea"],
       [method |-> "DELETE", pattern |-> <<"api", "ideas", "{}">>,           op |-> "delete_idea"],
       [method |-> "DELETE", pattern |-> <<"api", "ideas", "all">>,          op |-> "delete_all_ideas"],
       [method |-> "GET",    pattern |-> <<"api", "stats">>,                 op |-> "get_statistics"],
       [method |-> "POST",   pattern |-> <<"api", "ai", "feedback">>,        op |-> "get_ai_feedback"],
       [method |-> "POST",   pattern |-> <<"api", "ai", "chat">>,            op |-> "ai_chat"] >>

PathMatches(pattern, path) ==
    /\ Len(pattern) = Len(path)
    /\ \A k \in 1..Len(pattern) : pattern[k] = "{}" \/ pattern[k] = path[k]

\* the conversion of a path segment to int: None when it is not a number
ParseInt(seg) ==
    CASE seg = "1" -> Some(1)
      [] seg = "2" -> Some(2)
      [] OTHER -> None

IdSegment(i) == CASE i = 1 -> "1" [] i = 2 -> "2"

\* the value of the path parameter of a matched route (None: no parameter)
PathParam(pattern, path) ==
    IF \E k \in 1..Len(pattern) : pattern[k] = "{}"
    THEN LET k == CHOOSE j \in 1..Len(pattern) : pattern[j] = "{}"
         IN  Some(path[k])
    ELSE None

MatchingRoutes(method, path) ==
    {k \in 1..Len(Routes) :
        Routes[k].method = method /\ PathMatches(Routes[k].pattern, path)}

\* the handler a request line is dispatched to, and its integer argument
Dispatch(method, path) ==
    LET ms == MatchingRoutes(method, path)
    IN  IF ms = {}
        THEN [op |-> "no_route", id |-> 0]
        ELSE LET k == CHOOSE j \in ms : \A x \in ms : j <= x
                 p == PathParam(Routes[k].pattern, path)
             IN  IF p = None
                 THEN [op |-> Routes[k].op, id |-> 0]
                 ELSE LET seg == CHOOSE x \in p : TRUE
                      IN  IF ParseInt(seg) = None
                          THEN [op |-> "validation_error", id |-> 0]
                          ELSE [op |-> Routes[k].op,
                                id |-> CHOOSE n \in ParseInt(seg) : TRUE]

(***************************************************************************)
(* Request inputs                                                          *)
(***************************************************************************)
TaskIds == {1, 2}
IdeaIds == {1}

\* TaskCreate bodies (the fields create_task and update_task read)
TaskBodies ==
    { [id |-> i, text |-> f.text, completed |-> f.completed,
       task_owner |-> f.task_owner, due_date |-> f.due_date] :
      i \in TaskIds,
      f \in { [text |-> "a", completed |-> FALSE, task_owner |-> None,
               due_date |-> None],
              [text |-> "b", completed |-> TRUE, task_owner |-> Some("ann"),
               due_date |-> Some("d1")] } }

\* IdeaCreate bodies
IdeaBodies ==
    { [id |-> i, text |-> "a", domain |-> f.domain, created_by |-> f.created_by] :
      i \in IdeaIds,
      f \in { [domain |-> None, created_by |-> None],
              [domain |-> Some("x"), created_by |-> Some("ann")] } }

Turn == [role |-> "user", content |-> "hi"]

\* IdeaUpdate bodies: every field is optional and defaults to None
IdeaPatches ==
    [text : {None, Some("b")},
     domain : {None, Some("y")},
     recommendations : {None, Some("r")},
     ai_feedback : {None, Some("f")},
     feature_list : {None, Some("a,b,c")},
     chat_history : {None, Some(<<>>), Some(<<Turn>>)},
     created_by : {None, Some("bob")}]

Value(opt) == CHOOSE v \in opt : TRUE

\* the JSON objects sent to /api/ai/feedback (request: dict): a key the
\* object does not hold is None
FeedbackBodies == [prompt : {None, Some(""), Some("p")}]

\* the JSON objects sent to /api/ai/chat
ChatBodies ==
    [messages : {None, Some(<<>>), Some(<<Turn>>)},
     max_tokens : {None, Some(100)}]

\* request.get(key, default)
Get(request, key, default) ==
    IF request[key] = None THEN default ELSE Value(request[key])

\* json.dumps of a chat history: the JSON text, as the sequence of its
\* objects, each the sequence of its "key": "value" members
JsonDumps(h) ==
    [k \in 1..Len(h) |-> << <<"role", h[k].role>>, <<"content", h[k].content>> >>]

\* %s::jsonb: the stored value parsed back from the JSON text
JsonbParse(j) ==
    [k \in 1..Len(j) |->
        [key \in {j[k][m][1] : m \in 1..Len(j[k])} |->
            LET m == CHOOSE x \in 1..Len(j[k]) : j[k][x][1] = key
            IN  j[k][m][2]]]

(***************************************************************************)
(* Handlers: the statement a handler executes on an open connection and    *)
(* the response it builds.  A result holds the tables after the statement. *)
(***************************************************************************)
Result(t, i, status, err, row, count) ==
    [tasks |-> t, ideas |-> i, status |-> status, err |-> err, row |-> row,
     count |-> count]

Insert(rows, k, row) ==
    [x \in DOMAIN rows \cup {k} |-> IF x = k THEN row ELSE rows[x]]

Delete(rows, ks) == [x \in DOMAIN rows \ ks |-> rows[x]]

\* SELECT * FROM tasks WHERE id = %s
get_task(task_id) ==
    IF task_id \in DOMAIN tasks
    THEN Result(tasks, ideas, 200, "none", Some(tasks[task_id]), None)
    ELSE Result(tasks, ideas, 404, "not_found", None, None)

create_task_upsert(task) ==
    LET row == [id |-> task.id, text |-> task.text,
                completed |-> task.completed, task_owner |-> task.task_owner,
                due_date |-> task.due_date, created_at |-> now]
    IN  Result(Insert(tasks, task.id, row), ideas, 201, "none", Some(row), None)

\* INSERT INTO tasks (...) VALUES (..., NOW()) RETURNING *
create_task(task) ==
    IF task.id \in DOMAIN tasks
    THEN Result(tasks, ideas, 500, "unique_violation", None, None)
    ELSE LET row == [id |-> task.id, text |-> task.text,
                     completed |-> task.completed,
                     task_owner |-> task.task_owner,
                     due_date |-> task.due_date, created_at |-> now]
         IN  Result(Insert(tasks, task.id, row), ideas, 201, "none",
                    Some(row), None)

delete_task_without_check(task_id) ==
    Result(Delete(tasks, {task_id}), ideas, 200, "none", None, Some(task_id))

\* DELETE FROM tasks WHERE id = %s RETURNING id
delete_task(task_id) ==
    IF task_id \in DOMAIN tasks
    THEN Result(Delete(tasks, {task_id}), ideas, 200, "none", None,
                Some(task_id))
    ELSE Result(tasks, ideas, 404, "not_found", None, None)

update_task_by_body_id(task_id, task) ==
    IF task.id \in DOMAIN tasks
    THEN LET row == [tasks[task.id] EXCEPT !.text = task.text,
                                           !.completed = task.completed,
                                           !.task_owner = task.task_owner,
                                           !.due_date = task.due_date]
         IN  Result([tasks EXCEPT ![task.id] = row], ideas, 200, "none",
                    Some(row), None)
    ELSE Result(tasks, ideas, 404, "not_found", None, None)

\* UPDATE tasks SET text = %s, completed = %s, task_owner = %s, due_date = %s
\* WHERE id = %s RETURNING *
update_task(task_id, task) ==
    IF task_id \in DOMAIN tasks
    THEN LET row == [tasks[task_id] EXCEPT !.text = task.text,
                                           !.completed = task.completed,
                                           !.task_owner = task.task_owner,
                                           !.due_date = task.due_date]
         IN  Result([tasks EXCEPT ![task_id] = row], ideas, 200, "none",
                    Some(row), None)
    ELSE Result(tasks, ideas, 404, "not_found", None, None)

get_idea_or_null(idea_id) ==
    IF idea_id \in DOMAIN ideas
    THEN Result(tasks, ideas, 200, "none", Some(ideas[idea_id]), None)
    ELSE Result(tasks, ideas, 200, "none", None, None)

\* SELECT * FROM ideas WHERE id = %s
get_idea(idea_id) ==
    IF idea_id \in DOMAIN ideas
    THEN Result(tasks, ideas, 200, "none", Some(ideas[idea_id]), None)
    ELSE Result(tasks, ideas, 404, "not_found", None, None)

\* INSERT INTO ideas (id, text, domain, chat_history, created_by, created_at)
\* VALUES (%s, %s, %s, '[]'::jsonb, %s, NOW()) RETURNING *
create_idea(idea) ==
    IF idea.id \in DOMAIN ideas
    THEN Result(tasks, ideas, 500, "unique_violation", None, None)
    ELSE LET row == [id |-> idea.id, text |-> idea.text,
                     domain |-> idea.domain, recommendations |-> None,
                     ai_feedback |-> None, feature_list |-> None,
                     chat_history |-> Some(JsonbParse(<<>>)),
                     created_by |-> idea.created_by, created_at |-> now,
                     updated_at |-> None,
                     feature_list_generated_at |-> None]
         IN  Result(tasks, Insert(ideas, idea.id, row), 201, "none",
                    Some(row), None)

Assign(col, val) == <<[col |-> col, val |-> val]>>

UpdateAllFields(idea) ==
       Assign("text", IF idea.text # None THEN Value(idea.text) ELSE "")
    \o Assign("domain", idea.domain)
    \o Assign("recommendations", idea.recommendations)
    \o Assign("ai_feedback", idea.ai_feedback)
    \o Assign("feature_list", idea.feature_list)
    \o (IF idea.feature_list # None
        THEN Assign("feature_list_generated_at", Some(now)) ELSE <<>>)
    \o Assign("chat_history",
              IF idea.chat_history # None
              THEN Some(JsonbParse(JsonDumps(Value(idea.chat_history))))
              ELSE None)
    \o Assign("created_by", idea.created_by)

\* the SET list update_idea builds from the fields that are not None
UpdateFields(idea) ==
       (IF idea.text # None THEN Assign("text", Value(idea.text)) ELSE <<>>)
    \o (IF idea.domain # None THEN Assign("domain", idea.domain) ELSE <<>>)
    \o (IF idea.recommendations # None
        THEN Assign("recommendations", idea.recommendations) ELSE <<>>)
    \o (IF idea.ai_feedback # None
        THEN Assign("ai_feedback", idea.ai_feedback) ELSE <<>>)
    \o (IF idea.feature_list # None
        THEN Assign("feature_list", idea.feature_list)
             \o Assign("feature_list_generated_at", Some(now))
        ELSE <<>>)
    \o (IF idea.chat_history # None
        THEN Assign("chat_history",
                    Some(JsonbParse(JsonDumps(Value(idea.chat_history)))))
        ELSE <<>>)
    \o (IF idea.created_by # None
        THEN Assign("created_by", idea.created_by) ELSE <<>>)

WithUpdatedAtAndGeneratedAt(fields) ==
    fields \o Assign("updated_at", Some(now))
           \o Assign("feature_list_generated_at", Some(now))

\* update_fields.append("updated_at = NOW()")
WithUpdatedAt(fields) == fields \o Assign("updated_at", Some(now))

ApplySetResettingOthers(row, fields) ==
    [c \in DOMAIN row |->
        IF \E k \in 1..Len(fields) : fields[k].col = c
        THEN fields[CHOOSE k \in 1..Len(fields) : fields[k].col = c].val
        ELSE IF c \in {"id", "text", "created_at", "chat_history"} THEN row[c]
        ELSE None]

\* UPDATE ... SET fields: the row with the listed columns assigned
ApplySet(row, fields) ==
    [c \in DOMAIN row |->
        IF \E k \in 1..Len(fields) : fields[k].col = c
        THEN fields[CHOOSE k \in 1..Len(fields) : fields[k].col = c].val
        ELSE row[c]]

\* UPDATE ideas SET ... WHERE id = %s RETURNING *  (update_fields not empty)
update_idea(idea_id, idea) ==
    IF idea_id \in DOMAIN ideas
    THEN LET row == ApplySet(ideas[idea_id], WithUpdatedAt(UpdateFields(idea)))
         IN  Result(tasks, [ideas EXCEPT ![idea_id] = row], 200, "none",
                    Some(row), None)
    ELSE Result(tasks, ideas, 404, "not_found", None, None)

\* DELETE FROM ideas WHERE id = %s RETURNING id
delete_idea(idea_id) ==
    IF idea_id \in DOMAIN ideas
    THEN Result(tasks, Delete(ideas, {idea_id}), 200, "none", None,
                Some(idea_id))
    ELSE Result(tasks, ideas, 404, "not_found", None, None)

\* DELETE FROM ideas RETURNING id
delete_all_ideas ==
    Result(tasks, <<>>, 200, "none", None, Some(Cardinality(DOMAIN ideas)))

\* SELECT domain, COUNT(*) as count FROM ideas WHERE domain IS NOT NULL
\* GROUP BY domain
GroupByDomain ==
    { [domain |-> d, count |-> Cardinality({i \in DOMAIN ideas : ideas[i].domain = d})] :
      d \in {ideas[i].domain : i \in DOMAIN ideas} \ {None} }

StatsStatements == 6

\* get_statistics: the locals after its k-th statement, executed on the
\* store as it is now
StatsStatement(k, s) ==
    CASE k = 1 -> [s EXCEPT !.step = k,
                     !.total_tasks = Cardinality(DOMAIN tasks)]
      [] k = 2 -> [s EXCEPT !.step = k,
                     !.completed_tasks =
                        Cardinality({i \in DOMAIN tasks : tasks[i].completed = TRUE})]
      [] k = 3 -> [s EXCEPT !.step = k,
                     !.total_ideas = Cardinality(DOMAIN ideas)]
      [] k = 4 -> [s EXCEPT !.step = k,
                     !.ideas_with_recommendations =
                        Cardinality({i \in DOMAIN ideas :
                                        ideas[i].recommendations # None})]
      [] k = 5 -> [s EXCEPT !.step = k,
                     !.ideas_with_features =
                        Cardinality({i \in DOMAIN ideas :
                                        ideas[i].feature_list # None})]
      [] k = 6 -> [s EXCEPT !.step = k, !.ideas_by_domain = GroupByDomain]

StatsResponseActiveIsTotal(s) ==
    [tasks |-> [total |-> s.total_tasks, completed |-> s.completed_tasks,
                active |-> s.total_tasks],
     ideas |-> [total |-> s.total_ideas,
                with_recommendations |-> s.ideas_with_recommendations,
                with_features |-> s.ideas_with_features,
                by_domain |-> s.ideas_by_domain]]

\* the dictionary get_statistics returns
StatsResponse(s) ==
    [tasks |-> [total |-> s.total_tasks, completed |-> s.completed_tasks,
                active |-> s.total_tasks - s.completed_tasks],
     ideas |-> [total |-> s.total_ideas,
                with_recommendations |-> s.ideas_with_recommendations,
                with_features |-> s.ideas_with_features,
                by_domain |-> s.ideas_by_domain]]

\* except Exception: raise HTTPException(500)
DatabaseError == Result(tasks, ideas, 500, "db_error", None, None)

DefaultMaxTokens == 2000

AiOps == {"get_ai_feedback", "ai_chat"}

\* raise HTTPException(code) before any call of the provider
AiError(code, err) == [status |-> code, err |-> err, call |-> None]

\* anthropic_client.messages.create(max_tokens = ..., messages = ...)
AiCall(max_tokens, messages) ==
    [status |-> 0, err |-> "none",
     call |-> Some([max_tokens |-> max_tokens, messages |-> messages])]

get_ai_feedback_prompt_first(request) ==
    LET prompt == Get(request, "prompt", "")
    IN  IF prompt = "" THEN AiError(400, "bad_request")
        ELSE IF ~anthropic_client THEN AiError(503, "not_configured")
        ELSE AiCall(DefaultMaxTokens,
                    <<[role |-> "user", content |-> prompt]>>)

\* get_ai_feedback up to the call of the provider
get_ai_feedback(request) ==
    IF ~anthropic_client THEN AiError(503, "not_configured")
    ELSE LET prompt == Get(request, "prompt", "")
         IN  IF prompt = "" THEN AiError(400, "bad_request")
             ELSE AiCall(DefaultMaxTokens,
                         <<[role |-> "user", content |-> prompt]>>)

\* ai_chat up to the call of the provider
ai_chat(request) ==
    IF ~anthropic_client THEN AiError(503, "not_configured")
    ELSE LET messages == Get(request, "messages", <<>>)
             max_tokens == Get(request, "max_tokens", DefaultMaxTokens)
         IN  IF messages = <<>> THEN AiError(400, "bad_request")
             ELSE AiCall(max_tokens, messages)

\* what the handler running on the innermost connection of client c does
\* with input b (a body for create_*, a patch for update_idea)
Handle(op, id, b) ==
    CASE op = "get_task" -> get_task(id)
      [] op = "create_task" -> create_task(b)
      [] op = "update_task" -> update_task(id, b)
      [] op = "delete_task" -> delete_task(id)
      [] op = "get_idea" -> get_idea(id)
      [] op = "create_idea" -> create_idea(b)
      [] op = "update_idea" -> update_idea(id, b)
      [] op = "delete_idea" -> delete_idea(id)
      [] op = "delete_all_ideas" -> delete_all_ideas

\* the inputs a handler takes from the request body
Inputs(op) ==
    CASE op = "create_task" -> TaskBodies
      [] op = "update_task" -> TaskBodies
      [] op = "get_ai_feedback" -> FeedbackBodies
      [] op = "ai_chat" -> ChatBodies
      [] op = "create_idea" -> IdeaBodies
      [] op = "update_idea" -> IdeaPatches
      [] OTHER -> {None}

\* the handler whose `with get_db()` block is the innermost one open:
\* update_idea with no field to update calls get_idea inside its own block
Running(r) == IF r.conns = 2 THEN "get_idea" ELSE r.op

(***************************************************************************)
(* Request handling                                                        *)
(***************************************************************************)
\* a request arrives and is routed
Arrive(c, method, path) ==
    /\ ipc = "serving"
    /\ req[c].pc = "idle"
    /\ now < MaxTime
    /\ now' = now + 1
    /\ LET d == Dispatch(method, path)
       IN  req' = [req EXCEPT ![c] =
                IF d.op = "validation_error"
                THEN [IdleReq EXCEPT !.method = method, !.path = path,
                                     !.op = d.op, !.status = 422,
                                     !.err = "validation"]
                ELSE IF d.op = "no_route"
                THEN [IdleReq EXCEPT !.method = method, !.path = path,
                                     !.op = d.op, !.status = 404,
                                     !.err = "no_route"]
                ELSE [IdleReq EXCEPT !.method = method, !.path = path,
                                     !.op = d.op, !.id = d.id,
                                     !.pc = IF d.op \in AiOps THEN "handler"
                                            ELSE "connect"]]
    /\ provider_calls' = [provider_calls EXCEPT ![c] = 0]
    /\ stats' = [stats EXCEPT ![c] = NoStats]
    /\ UNCHANGED <<dbvars, initvars, anthropic_client>>

\* with get_db() as conn: psycopg2.connect
Connect(c) ==
    /\ req[c].pc = "connect"
    /\ \E ok \in BOOLEAN :
          req' = [req EXCEPT ![c] =
              IF ok
              THEN [@ EXCEPT !.conns = @ + 1, !.pc = "body"]
              ELSE [@ EXCEPT !.status = 500, !.err = "db_error",
                             !.row = None, !.count = None,
                             !.pc = IF req[c].conns = 0 THEN "idle" ELSE "exit"]]
    /\ UNCHANGED <<dbvars, initvars, now, apivars>>

\* the body of the with block: one statement, then return or raise
Execute(c) ==
    /\ req[c].pc = "body"
    /\ \E ok \in BOOLEAN, b \in Inputs(Running(req[c])) :
          LET op == Running(req[c])
              id == IF op \in {"create_task", "create_idea"} THEN b.id
                    ELSE req[c].id
          IN  IF op = "update_idea" /\ UpdateFields(b) = <<>>
              THEN \* return get_idea(idea_id)
                   /\ req' = [req EXCEPT ![c] = [@ EXCEPT !.pc = "connect",
                                                           !.input = b]]
                   /\ UNCHANGED <<tasks, ideas, stats>>
              ELSE IF op = "get_statistics"
              THEN \* get_statistics: the next cursor.execute and the
                   \* assignment of its result; after the last, return
                   /\ UNCHANGED <<tasks, ideas>>
                   /\ stats' = [stats EXCEPT ![c] =
                                   IF ok THEN StatsStatement(@.step + 1, @)
                                   ELSE @]
                   /\ req' = [req EXCEPT ![c] =
                         IF ~ok
                         THEN [@ EXCEPT !.pc = "exit", !.status = 500,
                                        !.err = "db_error"]
                         ELSE IF stats[c].step + 1 = StatsStatements
                         THEN [@ EXCEPT !.pc = "exit", !.status = 200,
                                        !.err = "none"]
                         ELSE @]
              ELSE \E r \in {IF ok THEN Handle(op, id, b) ELSE DatabaseError} :
                   /\ UNCHANGED stats
                   /\ tasks' = r.tasks
                   /\ ideas' = r.ideas
                   /\ req' = [req EXCEPT ![c] =
                         [@ EXCEPT !.pc = "exit", !.status = r.status,
                                   !.err = r.err, !.row = r.row,
                                   !.count = r.count,
                                   !.input = IF op = req[c].op THEN b ELSE @,
                                   !.id = id]]
    /\ UNCHANGED <<schema, settings, initvars, now, anthropic_client,
                    provider_calls>>

CloseUnlessRaised(c) ==
    /\ req[c].pc = "exit"
    /\ req' = [req EXCEPT ![c] =
            [@ EXCEPT !.conns = IF req[c].status < 400 THEN @ - 1 ELSE @,
                      !.input = IF req[c].conns = 1 THEN None ELSE @,
                      !.pc = IF req[c].conns = 1 THEN "idle" ELSE "exit"]]
    /\ UNCHANGED <<dbvars, initvars, now, apivars>>

\* get_db: finally: conn.close(); the response (and with it the request)
\* leaves with the outermost block
Close(c) ==
    /\ req[c].pc = "exit"
    /\ req' = [req EXCEPT ![c] =
            [@ EXCEPT !.conns = @ - 1,
                      !.input = IF req[c].conns = 1 THEN None ELSE @,
                      !.pc = IF req[c].conns = 1 THEN "idle" ELSE "exit"]]
    /\ UNCHANGED <<dbvars, initvars, now, apivars>>

\* an AI endpoint runs until it raises or calls the provider
AiHandler(c) ==
    /\ req[c].pc = "handler"
    /\ \E b \in Inputs(req[c].op) :
          \E r \in {IF req[c].op = "get_ai_feedback" THEN get_ai_feedback(b)
                    ELSE ai_chat(b)} :
             IF r.call = None
             THEN /\ req' = [req EXCEPT ![c] =
                        [@ EXCEPT !.pc = "idle", !.status = r.status,
                                  !.err = r.err, !.input = b]]
                  /\ UNCHANGED provider_calls
             ELSE /\ req' = [req EXCEPT ![c] =
                        [@ EXCEPT !.pc = "provider", !.input = b]]
                  /\ provider_calls' = [provider_calls EXCEPT ![c] = @ + 1]
    /\ UNCHANGED <<dbvars, initvars, now, anthropic_client, stats>>

\* messages.create returns a message or raises; except Exception: 500
ProviderReturns(c) ==
    /\ req[c].pc = "provider"
    /\ \E ok \in BOOLEAN :
          req' = [req EXCEPT ![c] =
              IF ok
              THEN [@ EXCEPT !.pc = "idle", !.status = 200,
                             !.row = Some([content |->
                                 <<[type |-> "text", text |-> "t"]>>])]
              ELSE [@ EXCEPT !.pc = "idle", !.status = 500,
                             !.err = "ai_error"]]
    /\ UNCHANGED <<dbvars, initvars, now, apivars>>

\* startup_event returns: init_db's locals are gone, requests are served
StartServing ==
    /\ ipc = "returned"
    /\ ipc' = "serving"
    /\ attempt' = 0
    /\ stmt' = 1
    /\ slept' = 0
    /\ UNCHANGED <<dbvars, ierr, iconns, runs, start, now, req, apivars>>

IdPaths(prefix, ids) == {<<"api", prefix, IdSegment(i)>> : i \in ids}

\* the requests clients send to the task endpoints
TaskRequests ==
    ({"GET", "PUT", "DELETE"} \X IdPaths("tasks", TaskIds))
        \cup {<<"POST", <<"api", "tasks">> >>}

\* the requests clients send to the idea endpoints
IdeaRequests ==
    ({"GET", "PUT", "DELETE"} \X IdPaths("ideas", IdeaIds))
        \cup {<<"POST", <<"api", "ideas">> >>,
              <<"DELETE", <<"api", "ideas", "all">> >>}
        \cup ({"GET"} \X IdPaths("tasks", IdeaIds))

InitDbStep ==
    \/ InitDbConnect
    \/ InitDbExecute
    \/ InitDbClose
    \/ InitDbExcept
    \/ InitDbSleep

NextInitDb ==
    \/ InitDbConnect
    \/ InitDbExecute
    \/ InitDbClose
    \/ InitDbExcept
    \/ InitDbSleep
    \/ Redeploy

SpecInitDb == InitSchemas /\ [][NextInitDb]_vars

\* a first start on an empty database, or on the store of the first deployment
InitStartup ==
    /\ \E sch \in {<<>>, MakeSchema(OriginalTasksCols, OriginalIdeasCols, {})} :
          InitStore(sch)
    /\ InitDbIdle
    /\ InitApi
    /\ InitNoKey

\* startup, then one client using the idea endpoints
Next ==
    \/ InitDbConnect
    \/ InitDbExecute
    \/ InitDbClose
    \/ InitDbExcept
    \/ InitDbSleep
    \/ StartServing
    \/ \E rq \in IdeaRequests : Arrive("c1", rq[1], rq[2])
    \/ Connect("c1")
    \/ Execute("c1")
    \/ Close("c1")

Spec == InitStartup /\ [][Next]_vars

\* the service after startup on an empty database
InitServing ==
    /\ schema = MakeSchema(TasksCols, IdeasCols, SettingsCols)
    /\ tasks = <<>>
    /\ ideas = <<>>
    /\ settings = <<>>
    /\ start = [schema |-> <<>>, prior |-> "none"]
    /\ ipc = "serving"
    /\ attempt = 0
    /\ stmt = 1
    /\ ierr = "none"
    /\ iconns = 0
    /\ slept = 0
    /\ runs = 1
    /\ InitApi
    /\ InitNoKey

\* concurrent clients using the task endpoints
NextTasks ==
    \/ \E c \in Clients, rq \in TaskRequests : Arrive(c, rq[1], rq[2])
    \/ \E c \in Clients : Connect(c)
    \/ \E c \in Clients : Execute(c)
    \/ \E c \in Clients : Close(c)

SpecTasks == InitServing /\ [][NextTasks]_vars

\* the requests of a client that changes tasks and ideas and reads the
\* statistics
StatsRequests ==
    TaskRequests
        \cup ({"PUT", "DELETE"} \X IdPaths("ideas", IdeaIds))
        \cup {<<"POST", <<"api", "ideas">> >>, <<"GET", <<"api", "stats">> >>}

\* one client, one request at a time
NextStats ==
    \/ \E rq \in StatsRequests : Arrive("c1", rq[1], rq[2])
    \/ Connect("c1")
    \/ Execute("c1")
    \/ Close("c1")

SpecStats == InitServing /\ [][NextStats]_vars

\* the update requests clients send for one task and one idea
UpdateRequests ==
    {<<"PUT", <<"api", "tasks", IdSegment(1)>> >>,
     <<"PUT", <<"api", "ideas", IdSegment(1)>> >>}

\* the service after startup, with one task and one idea stored
InitStored ==
    /\ schema = MakeSchema(TasksCols, IdeasCols, SettingsCols)
    /\ tasks = StartRows(schema, "tasks", 1)
    /\ ideas = StartRows(schema, "ideas", 1)
    /\ settings = <<>>
    /\ start = [schema |-> <<>>, prior |-> "none"]
    /\ ipc = "serving"
    /\ attempt = 0
    /\ stmt = 1
    /\ ierr = "none"
    /\ iconns = 0
    /\ slept = 0
    /\ runs = 1
    /\ InitApi
    /\ InitNoKey

\* the IdeaUpdate bodies concurrent clients send: no field, or one of
\* text, domain and feature_list
SingleFieldPatches ==
    {p \in IdeaPatches :
        /\ p.recommendations = None /\ p.ai_feedback = None
        /\ p.chat_history = None /\ p.created_by = None
        /\ Cardinality({f \in {"text", "domain", "feature_list"} :
                            p[f] # None}) <= 1}

\* Execute for a request whose IdeaUpdate body is one of SingleFieldPatches
ExecuteSingleField(c) ==
    /\ Execute(c)
    /\ req'[c].op = "update_idea" => req'[c].input \in SingleFieldPatches

\* concurrent clients updating the same task and the same idea
NextUpdates ==
    \/ \E c \in Clients, rq \in UpdateRequests : Arrive(c, rq[1], rq[2])
    \/ \E c \in Clients : Connect(c)
    \/ \E c \in Clients : ExecuteSingleField(c)
    \/ \E c \in Clients : Close(c)

SpecUpdates == InitStored /\ [][NextUpdates]_vars

\* concurrent clients changing tasks and reading the statistics
NextStatsRace ==
    \/ \E c \in Clients,
          rq \in TaskRequests \cup {<<"GET", <<"api", "stats">> >>} :
             Arrive(c, rq[1], rq[2])
    \/ \E c \in Clients : Connect(c)
    \/ \E c \in Clients : Execute(c)
    \/ \E c \in Clients : Close(c)

SpecStatsRace == InitServing /\ [][NextStatsRace]_vars

\* the requests clients send to the AI endpoints
AiRequests ==
    {<<"POST", <<"api", "ai", "feedback">> >>,
     <<"POST", <<"api", "ai", "chat">> >>}

\* the service after startup, with or without ANTHROPIC_API_KEY
InitAi ==
    /\ schema = MakeSchema(TasksCols, IdeasCols, SettingsCols)
    /\ tasks = <<>>
    /\ ideas = <<>>
    /\ settings = <<>>
    /\ start = [schema |-> <<>>, prior |-> "none"]
    /\ ipc = "serving"
    /\ attempt = 0
    /\ stmt = 1
    /\ ierr = "none"
    /\ iconns = 0
    /\ slept = 0
    /\ runs = 1
    /\ InitApi
    /\ anthropic_client \in BOOLEAN

\* concurrent clients using the AI endpoints
NextAi ==
    \/ \E c \in Clients, rq \in AiRequests : Arrive(c, rq[1], rq[2])
    \/ \E c \in Clients : AiHandler(c)
    \/ \E c \in Clients : ProviderReturns(c)

SpecAi == InitAi /\ [][NextAi]_vars

\* startup alone, with init_db scheduled until it returns or raises
SpecStartup == InitStartup /\ [][NextInitDb]_vars /\ WF_vars(InitDbStep)

(***************************************************************************)
(* Properties                                                              *)
(***************************************************************************)
Finished == ipc \in {"returned", "raised"}

FullSchema == \A t \in Tables : t \in DOMAIN schema /\ schema[t] = TargetCols(t)

\* C1: init_db makes at most max_retries attempts and sleeps retry_delay
\* after each attempt that failed with an OperationalError except the last
\* (so at most max_retries - 1 sleeps); a successful attempt returns at once,
\* the last failed attempt raises without sleeping, and every run of init_db
\* ends by returning or raising.
C1_RetryBound ==
    /\ [](/\ attempt < max_retries
          /\ slept = retry_delay * attempt
          /\ slept <= retry_delay * (max_retries - 1)
          /\ (ipc = "raised" /\ IsOperationalError(ierr)
                => attempt = max_retries - 1)
          /\ (ipc = "returned" => ierr = "none"))
    /\ [][/\ (ipc = "exit" /\ ierr = "none")
                => (ipc' = "returned" /\ attempt' = attempt /\ slept' = slept)
          /\ (ipc = "except" /\ ierr = "operational" /\ attempt < max_retries - 1)
                => (ipc' = "sleep" /\ attempt' = attempt)
          /\ (ipc = "sleep")
                => (/\ slept' = slept + retry_delay
                    /\ attempt' = attempt + 1
                    /\ ipc' = "connect")
          /\ (ipc = "except" /\ ierr = "operational" /\ attempt = max_retries - 1)
                => (ipc' = "raised" /\ slept' = slept)
          /\ (Finished /\ runs' = runs) => UNCHANGED <<ipc, attempt, slept>>]_vars
    /\ []<>Finished

C1_Witness ==
    /\ ipc = "raised"
    /\ ierr = "operational"
    /\ attempt = max_retries - 1
    /\ slept = retry_delay * (max_retries - 1)

\* C2: an attempt of init_db that fails with an error that is not an
\* OperationalError makes init_db raise at once, at any attempt number:
\* no sleep, no further attempt.
C2_NoRetryOnOtherError ==
    /\ [][/\ (ipc = "except" /\ ierr \notin {"none", "operational"})
                => (ipc' = "raised" /\ attempt' = attempt /\ slept' = slept
                    /\ ierr' = ierr)
          /\ (ipc = "raised" /\ runs' = runs)
                => UNCHANGED <<ipc, attempt, slept, ierr>>]_vars
    /\ [](ipc = "sleep" => ierr = "operational")

C2_Witness ==
    /\ ipc = "raised"
    /\ ierr = "other"
    /\ attempt = 2
    /\ slept = retry_delay * 2

\* the existing tables have the columns of their first definition
HasOriginalCols(sch) == \A t \in DOMAIN sch : OriginalCols(t) \subseteq sch[t]

\* C3 (as claimed): after init_db returns, tasks, ideas and settings exist
\* with their full target column sets, whatever subset of its target
\* columns each existing table started with.
C3_FullFromAnySubset == ipc = "returned" => FullSchema

\* C3 (amended): after init_db returns, tasks, ideas and settings exist
\* with their full target column sets, provided each table was absent or
\* had at least the columns of its first definition when init_db started.
C3_FullFromOriginal ==
    (ipc = "returned" /\ HasOriginalCols(start.schema)) => FullSchema

C3_Witness ==
    /\ ipc = "returned"
    /\ start.prior = "none"
    /\ start.schema = MakeSchema(OriginalTasksCols, OriginalIdeasCols, {})
    /\ FullSchema

\* every table, column and stored value of the store is kept by a step
KeepsRows(rows, rows2) ==
    \A k \in DOMAIN rows :
        /\ k \in DOMAIN rows2
        /\ \A c \in DOMAIN rows[k] :
              c \in DOMAIN rows2[k] /\ rows2[k][c] = rows[k][c]

KeepsStore ==
    /\ \A t \in DOMAIN schema : t \in DOMAIN schema' /\ schema[t] \subseteq schema'[t]
    /\ KeepsRows(tasks, tasks')
    /\ KeepsRows(ideas, ideas')
    /\ KeepsRows(settings, settings')

\* C4 (as claimed): a run of init_db after a successful run, and likewise
\* an attempt after one that failed part-way, raises no error of its own
\* and leaves the tables, the columns and the stored rows unchanged.
C4_RerunChangesNothing ==
    [][(start.prior # "none" \/ attempt > 0) => UNCHANGED dbvars]_vars

\* C4 (amended): a run of init_db after a successful run leaves the tables,
\* the columns and the stored rows unchanged; an attempt after one that
\* failed part-way keeps every table, column and stored value that is
\* there and only adds what is missing; in neither does a duplicate-column
\* (or any other error of the statements themselves) reach the caller:
\* init_db fails only when the store does.
C4_Idempotent ==
    /\ [][/\ start.prior = "returned" => UNCHANGED dbvars
          /\ KeepsStore]_vars
    /\ [](ierr \in {"none", "operational", "other"})

C4_Witness ==
    /\ ipc = "returned"
    /\ runs = 2
    /\ start.prior = "returned"
    /\ start.schema = schema
    /\ FullSchema

\* C5: every connection get_db opens is closed when its with block is left,
\* by return, by HTTPException or by any other exception: a client whose
\* request has been answered holds no connection, and init_db holds none
\* outside the body of an attempt.
C5_ConnectionsClosed ==
    /\ \A c \in Clients :
          /\ req[c].conns >= 0
          /\ req[c].pc = "idle" => req[c].conns = 0
    /\ iconns >= 0
    /\ ipc \notin {"body", "exit"} => iconns = 0

C5_Witness ==
    /\ req["c1"].pc = "idle"
    /\ req["c1"].op = "get_task"
    /\ req["c1"].status = 404
    /\ req["c1"].conns = 0

\* C6: a request never holds more than one open connection, update_idea
\* with no field supplied included.
C6_OneConnectionPerRequest == \A c \in Clients : req[c].conns <= 1

\* C7: DELETE /api/ideas/all is dispatched to delete_all_ideas, not to the
\* route DELETE /api/ideas/{idea_id} registered before it; once answered,
\* no idea is left and the count of removed ideas is returned.
C7_DeleteAllDispatched ==
    \A c \in Clients :
        (req[c].method = "DELETE" /\ req[c].path = <<"api", "ideas", "all">>)
            => /\ req[c].op = "delete_all_ideas"
               /\ (req[c].pc = "idle" /\ req[c].err = "none")
                     => (req[c].status = 200 /\ req[c].count # None)

PatchCols == {"text", "domain", "recommendations", "ai_feedback",
              "feature_list", "chat_history", "created_by"}

\* the value column f holds once the supplied value v was written to it
Stored(f, v) == IF f = "text" THEN CHOOSE x \in v : TRUE ELSE v

\* client c executes the statement of handler op in this step
Executes(c, op) ==
    /\ req[c].pc = "body"
    /\ req'[c].pc # "body"
    /\ Running(req[c]) = op
    /\ req'[c].err # "db_error"

\* C8: update_idea on an existing idea writes exactly the supplied fields:
\* a field that is not supplied keeps its value, a supplied field takes the
\* supplied value, updated_at becomes the request time when at least one
\* field is supplied and the updated row is returned; with no field
\* supplied no column changes, updated_at included, and the current row is
\* returned.
C8_PartialUpdate ==
    [][\A c \in Clients :
        /\ (Executes(c, "update_idea") /\ req[c].id \in DOMAIN ideas)
              => LET b == req'[c].input
                     old == ideas[req[c].id]
                 IN  /\ req[c].id \in DOMAIN ideas'
                     /\ LET new == ideas'[req[c].id]
                        IN  /\ \A f \in PatchCols :
                                  new[f] = IF b[f] = None THEN old[f]
                                           ELSE Stored(f, b[f])
                            /\ new.id = old.id
                            /\ new.created_at = old.created_at
                            /\ IF \E f \in PatchCols : b[f] # None
                               THEN /\ new.updated_at = Some(now)
                                    /\ req'[c].row = Some(new)
                                    /\ req'[c].status = 200
                               ELSE /\ new = old
                                    /\ UNCHANGED ideas
        /\ (Executes(c, "get_idea") /\ req[c].op = "update_idea"
                /\ req[c].id \in DOMAIN ideas)
              => /\ UNCHANGED ideas
                 /\ req'[c].row = Some(ideas[req[c].id])
                 /\ req'[c].status = 200]_vars

C8_Witness ==
    /\ req["c1"].op = "update_idea"
    /\ req["c1"].pc = "exit"
    /\ req["c1"].status = 200
    /\ req["c1"].input.text = Some("b")
    /\ req["c1"].input.domain = None
    /\ \E r \in req["c1"].row :
          r.text = "b" /\ r.domain = Some("x") /\ r.updated_at = Some(now)

\* C9: an update_idea that supplies feature_list sets feature_list and sets
\* feature_list_generated_at to the request time; no other step changes
\* the feature_list_generated_at of a stored idea, and a created idea has
\* none.
C9_GeneratedAtOnlyWithFeatureList ==
    [][/\ \A c \in Clients :
            /\ (Executes(c, "update_idea") /\ req[c].id \in DOMAIN ideas
                    /\ req'[c].input.feature_list # None)
                  => /\ ideas'[req[c].id].feature_list = req'[c].input.feature_list
                     /\ ideas'[req[c].id].feature_list_generated_at = Some(now)
            /\ (Executes(c, "create_idea") /\ req'[c].status = 201)
                  => ideas'[req'[c].id].feature_list_generated_at = None
       /\ \A i \in DOMAIN ideas \cap DOMAIN ideas' :
            ideas'[i].feature_list_generated_at # ideas[i].feature_list_generated_at
               => \E c \in Clients :
                     /\ Executes(c, "update_idea")
                     /\ req[c].id = i
                     /\ req'[c].input.feature_list # None]_vars

C9_Witness ==
    /\ req["c1"].op = "update_idea"
    /\ req["c1"].pc = "exit"
    /\ req["c1"].status = 200
    /\ req["c1"].input.feature_list = Some("a,b,c")
    /\ req["c1"].input.text = None
    /\ \E r \in req["c1"].row :
          /\ r.feature_list = Some("a,b,c")
          /\ r.feature_list_generated_at = Some(now)
          /\ r.updated_at = Some(now)

C11_DeleteTask ==
    [][/\ \A c \in Clients :
            /\ Executes(c, "delete_task") =>
                  LET id == req[c].id
                  IN  /\ id \notin DOMAIN tasks
                           => /\ req'[c].status = 404
                              /\ UNCHANGED tasks
                      /\ id \in DOMAIN tasks
                           => /\ req'[c].status = 200
                              /\ req'[c].count = Some(id)
                              /\ DOMAIN tasks' = DOMAIN tasks \ {id}
                              /\ \A k \in DOMAIN tasks' : tasks'[k] = tasks[k]
            /\ (Executes(c, "get_task") /\ req[c].id \notin DOMAIN tasks)
                  => /\ req'[c].status = 404
                     /\ req'[c].row = None
       /\ \A id \in DOMAIN tasks' \ DOMAIN tasks :
            \E c \in Clients : Executes(c, "create_task") /\ req'[c].id = id
      ]_vars

\* one client has deleted a stored task, the other then fetched it
C11_Witness ==
    \E c, d \in Clients :
        /\ req[c].op = "delete_task" /\ req[c].status = 200
        /\ req[c].pc = "idle" /\ req[c].count = Some(req[c].id)
        /\ req[d].op = "get_task" /\ req[d].pc = "exit"
        /\ req[d].id = req[c].id
        /\ req[d].status = 404 /\ req[d].err = "not_found"
        /\ req[d].id \notin DOMAIN tasks

IsSequence(h) == DOMAIN h = 1..Len(h)

\* C12: once the ideas table has the chat_history column, every stored idea
\* holds a chat history that is a sequence (possibly empty) and not NULL:
\* rows stored before init_db added the column, rows inserted by
\* create_idea and rows written by update_idea with any patch; and the
\* column is there whenever requests are served.
C12_ChatHistoryPresent ==
    /\ ipc = "serving" => "chat_history" \in schema["ideas"]
    /\ \A i \in DOMAIN ideas :
          "chat_history" \in schema["ideas"]
             => /\ "chat_history" \in DOMAIN ideas[i]
                /\ ideas[i].chat_history # None
                /\ \A h \in ideas[i].chat_history : IsSequence(h)

\* an idea stored by the first deployment, after init_db added the column
\* and after an update_idea that set its chat history
C12_Witness ==
    /\ ipc = "serving"
    /\ start.schema = MakeSchema(OriginalTasksCols, OriginalIdeasCols, {})
    /\ 1 \in DOMAIN ideas
    /\ ideas[1].created_at = 0
    /\ ideas[1].updated_at = Some(now)
    /\ ideas[1].chat_history = Some(<<Turn>>)
    /\ req["c1"].op = "update_idea" /\ req["c1"].status = 200

\* the request object holds no prompt (no message), or an empty one
NothingToSend(op, request) ==
    IF op = "get_ai_feedback"
    THEN request.prompt \in {None, Some("")}
    ELSE request.messages \in {None, Some(<<>>)}

\* C13: an AI endpoint without a configured client answers 503 for every
\* request object and calls the provider not at all; with a client, an
\* empty or missing prompt (message list) answers 400 without a call;
\* otherwise the request makes exactly one provider call, which answers 200
\* or, when it fails, 500 with no further call.
C13_AiPrecedence ==
    \A c \in Clients :
        (req[c].op \in AiOps /\ req[c].pc # "handler")
           => /\ ~anthropic_client
                   => /\ req[c].pc = "idle"
                      /\ req[c].status = 503
                      /\ provider_calls[c] = 0
              /\ (anthropic_client /\ NothingToSend(req[c].op, req[c].input))
                   => /\ req[c].pc = "idle"
                      /\ req[c].status = 400
                      /\ provider_calls[c] = 0
              /\ (anthropic_client /\ ~NothingToSend(req[c].op, req[c].input))
                   => /\ provider_calls[c] = 1
                      /\ req[c].pc \in {"provider", "idle"}
                      /\ req[c].pc = "idle" => req[c].status \in {200, 500}
                      /\ req[c].err = "ai_error"
                            => req[c].pc = "idle" /\ req[c].status = 500

\* with a client configured: one request refused for its empty prompt,
\* another failed at the provider after its single call
C13_Witness ==
    \E c, d \in Clients :
        /\ anthropic_client
        /\ req[c].op = "get_ai_feedback" /\ req[c].pc = "idle"
        /\ req[c].input.prompt = Some("") /\ req[c].status = 400
        /\ provider_calls[c] = 0
        /\ req[d].op = "ai_chat" /\ req[d].pc = "idle"
        /\ req[d].status = 500 /\ req[d].err = "ai_error"
        /\ provider_calls[d] = 1

\* C14: with one request at a time, the dictionary get_statistics returns
\* describes the store: tasks.total is the number of tasks, tasks.completed
\* the number of completed ones, tasks.active their difference, which is the
\* number of tasks not completed; the idea counts and the breakdown by
\* domain are those of the stored ideas (all 0 and empty on an empty store);
\* and no step of get_statistics changes a row.
C14_StatisticsMatchStore ==
    [][LET c == "c1"
       IN  /\ (req'[c].op = "get_statistics" /\ req'[c].status = 200)
                => LET r == StatsResponse(stats'[c])
                       done == {i \in DOMAIN tasks' : tasks'[i].completed}
                   IN  /\ r.tasks.total = Cardinality(DOMAIN tasks')
                       /\ r.tasks.completed = Cardinality(done)
                       /\ r.tasks.active = r.tasks.total - r.tasks.completed
                       /\ r.tasks.active = Cardinality(DOMAIN tasks' \ done)
                       /\ r.ideas.total = Cardinality(DOMAIN ideas')
                       /\ r.ideas.with_recommendations =
                             Cardinality({i \in DOMAIN ideas' :
                                             ideas'[i].recommendations # None})
                       /\ r.ideas.with_features =
                             Cardinality({i \in DOMAIN ideas' :
                                             ideas'[i].feature_list # None})
                       /\ \A g \in r.ideas.by_domain :
                             /\ g.domain # None
                             /\ g.count > 0
                             /\ g.count = Cardinality({i \in DOMAIN ideas' :
                                                ideas'[i].domain = g.domain})
                       /\ \A i \in DOMAIN ideas' :
                             ideas'[i].domain # None
                                => \E g \in r.ideas.by_domain :
                                      g.domain = ideas'[i].domain
                       /\ (tasks' = <<>> /\ ideas' = <<>>)
                             => r = [tasks |-> [total |-> 0, completed |-> 0,
                                                active |-> 0],
                                     ideas |-> [total |-> 0,
                                                with_recommendations |-> 0,
                                                with_features |-> 0,
                                                by_domain |-> {}]]
           /\ (req[c].op = "get_statistics" /\ req'[c].op = "get_statistics")
                => UNCHANGED <<tasks, ideas, settings, schema>>
      ]_vars

\* statistics read after two tasks were created, one of them completed
C14_Witness ==
    /\ req["c1"].op = "get_statistics"
    /\ req["c1"].status = 200
    /\ req["c1"].pc = "idle"
    /\ Cardinality(DOMAIN tasks) = 2
    /\ StatsResponse(stats["c1"]).tasks =
          [total |-> 2, completed |-> 1, active |-> 1]

Applied(d, op, id) ==
    /\ req[d].op = op
    /\ req[d].pc = "exit"
    /\ req[d].status = 200
    /\ req[d].id = id

C17_ConsistentCounts ==
    \A c \in Clients :
        (req[c].op = "get_statistics" /\ req[c].status = 200)
           => LET r == StatsResponse(stats[c]).tasks
              IN  /\ 0 <= r.completed
                  /\ r.completed <= r.total
                  /\ r.active = r.total - r.completed
                  /\ r.active >= 0

\* C18: update_idea on an identifier that is not stored answers 404 and
\* changes no idea, whatever the patch: with a field supplied the UPDATE
\* matches no row and the handler raises 404; with no field it calls
\* get_idea, which raises 404 and returns no row, and that answer is the
\* one the request leaves with.  An idea appears only through create_idea.
C18_UpdateAbsentIdea ==
    [][/\ \A c \in Clients :
            /\ (Executes(c, "update_idea") /\ req[c].id \notin DOMAIN ideas)
                  => /\ UNCHANGED ideas
                     /\ IF \E f \in PatchCols : req'[c].input[f] # None
                        THEN /\ req'[c].pc = "exit"
                             /\ req'[c].status = 404
                             /\ req'[c].row = None
                        ELSE req'[c].pc = "connect"
            /\ (Executes(c, "get_idea") /\ req[c].op = "update_idea"
                    /\ req[c].id \notin DOMAIN ideas)
                  => /\ UNCHANGED ideas
                     /\ req'[c].pc = "exit"
                     /\ req'[c].status = 404
                     /\ req'[c].row = None
            /\ (req[c].op = "update_idea" /\ req[c].pc = "exit")
                  => /\ req'[c].pc \in {"exit", "idle"}
                     /\ req'[c].status = req[c].status
                     /\ req'[c].row = req[c].row
                     /\ UNCHANGED ideas
       /\ \A id \in DOMAIN ideas' \ DOMAIN ideas :
            \E c \in Clients : Executes(c, "create_idea") /\ req'[c].id = id
      ]_vars

\* an update_idea without fields on an empty store, after the get_idea it
\* called has raised 404 and closed its connection
C18_Witness ==
    /\ req["c1"].op = "update_idea"
    /\ req["c1"].pc = "exit"
    /\ req["c1"].conns = 1
    /\ req["c1"].status = 404
    /\ req["c1"].row = None
    /\ \A f \in PatchCols : req["c1"].input[f] = None
    /\ req["c1"].id \notin DOMAIN ideas

====
